---- MODULE Spec2Model ----
(***************************************************************************)
(* Model of src/order/args.py: OrderArguments, the builder that registers  *)
(* command line options (the add_ methods) and extracts them into          *)
(* order_request (the parse_ methods), driven by parse_arguments.          *)
(*                                                                         *)
(* A Python value is a sequence: None is <<>>, any other value v is <<v>>.  *)
(* A string produced by strftime is a sequence of one-character strings.   *)
(* order_request is a function whose DOMAIN is the set of keys of the      *)
(* Python dict.                                                            *)
(***************************************************************************)
EXTENDS Integers, Sequences, FiniteSets, TLC

VARIABLES parser, param_parsers, order_request, args, phase, error, ran, log, builds

vars == <<parser, param_parsers, order_request, args, phase, error, ran, log, builds>>

(* ------------------------------ bounds --------------------------------- *)

\* longest list of param_parsers explored
MaxParsers == 2

\* longest list of param_parsers on which a second parse_arguments call is
\* explored (SpecRebuild)
MaxRebuildParsers == 1

\* number of parse_arguments calls explored on one builder (SpecRebuild)
MaxBuilds == 2

(* ------------------------------ values --------------------------------- *)

None == <<>>

Some(v) == <<v>>

\* the default of add_time_in_force(choices=...)
DefaultChoices == {"FOK", "IOC", "GTC", "GFD", "GTD"}

\* the choices a caller passes: the default, and one subset without GTD
ChoiceSets == {DefaultChoices, {"FOK", "IOC"}}

\* the date-times the option-parsing collaborator may hand over: one with
\* one-digit and two-digit fields
DateTimes ==
    { [year |-> 2026, month |-> 11, day |-> 3, hour |-> 9, minute |-> 5, second |-> 0] }

\* one sample value per plain string option
SampleValue ==
    [ trade_id |-> "@77", instrument |-> "EUR_USD", units |-> "-100",
      price |-> "1.2345", distance |-> "0.0050", price_bound |-> "1.3000",
      position_fill |-> "REDUCE_ONLY",
      client_order_id |-> "abc", client_order_tag |-> "otag",
      client_order_comment |-> "ocomment",
      client_trade_id |-> "tid", client_trade_tag |-> "ttag",
      client_trade_comment |-> "tcomment",
      take_profit_price |-> "1.5000", stop_loss_price |-> "1.1000",
      trailing_stop_loss_distance |-> "0.0100" ]

\* the values parse_args can store under dest d, given the registered choices
Values(d, choices) ==
    CASE d = "time_in_force" -> choices
      [] d = "gtd_time" -> DateTimes
      [] OTHER -> {SampleValue[d]}

\* every namespace parse_args can return: one attribute per registered
\* dest, each None or a coerced value
RECURSIVE Namespaces(_, _)
Namespaces(dests, choices) ==
    IF dests = {} THEN { <<>> }
    ELSE LET d == CHOOSE x \in dests : TRUE
         IN  { (d :> v) @@ a : a \in Namespaces(dests \ {d}, choices),
                               v \in {None} \cup {Some(w) : w \in Values(d, choices)} }

ArgsSpace(p) == Namespaces(p.dests, p.choices)

(* ----------------------- datetime.strftime ----------------------------- *)

Digit(n) == <<"0", "1", "2", "3", "4", "5", "6", "7", "8", "9">>[n + 1]

\* %m %d %H %M %S: two digits, zero padded
Pad2(n) == <<Digit(n \div 10), Digit(n % 10)>>

\* %Y for a four-digit year
Pad4(n) == <<Digit(n \div 1000), Digit((n \div 100) % 10), Digit((n \div 10) % 10), Digit(n % 10)>>

\* gtd_time.strftime("%Y-%m-%dT%H:%M:%S.000000000Z")
strftime(dt) ==
    Pad4(dt.year) \o <<"-">> \o Pad2(dt.month) \o <<"-">> \o Pad2(dt.day) \o <<"T">>
      \o Pad2(dt.hour) \o <<":">> \o Pad2(dt.minute) \o <<":">> \o Pad2(dt.second)
      \o <<".", "0", "0", "0", "0", "0", "0", "0", "0", "0", "Z">>

(* ------------------- the dict and the extractor state ------------------ *)

\* st is the state of one parse_arguments call: req the order_request,
\* err the exception that ended it, log the keys assigned (in order),
\* ran the extractors called (in order)

\* self.order_request[k] = v
SetItem(st, k, v) ==
    [st EXCEPT !.req = [x \in DOMAIN st.req \cup {k} |-> IF x = k THEN v ELSE st.req[x]],
               !.log = Append(@, k)]

\* an exception leaves the extractor and parse_arguments
Raise(st, e) == [st EXCEPT !.err = e]

\* reading args.<d>: a namespace without the attribute raises AttributeError
HasAttr(a, d) == d \in DOMAIN a

\* the extractors that copy one option under one key
PassThrough(a, st, d, k) ==
    IF ~HasAttr(a, d) THEN Raise(st, "AttributeError")
    ELSE IF a[d] = None THEN st
    ELSE SetItem(st, k, a[d])

\* v20.transaction.ClientExtensions and the Details classes, called with
\* keyword arguments: the fields set are the keyword arguments given
Construct(type, kwargs) == Some([type |-> type, fields |-> kwargs])

(* ----------------------------- extractors ------------------------------ *)

\* the second definition of parse_trade_id, which replaces the first
parse_trade_id(a, st) == PassThrough(a, st, "trade_id", "tradeID")

parse_instrument(a, st) == PassThrough(a, st, "instrument", "instrument")

parse_units(a, st) == PassThrough(a, st, "units", "units")

parse_price(a, st) == PassThrough(a, st, "price", "price")

parse_distance(a, st) == PassThrough(a, st, "distance", "distance")

\* parser.error prints the message and exits the process (SystemExit):
\* it never returns, the return after it is not reached
parser_error(st) == Raise(st, "ValidationError")

\* parse_time_in_force writing gtdTime whenever gtd-time is supplied,
\* whatever the time-in-force
parse_time_in_force_AnyTif(a, st) ==
    IF ~HasAttr(a, "time_in_force") THEN Raise(st, "AttributeError")
    ELSE IF a["time_in_force"] = None THEN st
    ELSE LET st1 == SetItem(st, "timeInForce", a["time_in_force"])
         IN  IF ~HasAttr(a, "gtd_time") THEN st1
             ELSE IF a["gtd_time"] = None
             THEN IF a["time_in_force"][1] # "GTD" THEN st1 ELSE parser_error(st1)
             ELSE SetItem(st1, "gtdTime", Some(strftime(a["gtd_time"][1])))

\* parse_time_in_force assigning timeInForce a second time after gtdTime
parse_time_in_force_Twice(a, st) ==
    IF ~HasAttr(a, "time_in_force") THEN Raise(st, "AttributeError")
    ELSE IF a["time_in_force"] = None THEN st
    ELSE LET st1 == SetItem(st, "timeInForce", a["time_in_force"])
         IN  IF a["time_in_force"][1] # "GTD" THEN st1
             ELSE IF ~HasAttr(a, "gtd_time") THEN Raise(st1, "AttributeError")
             ELSE IF a["gtd_time"] = None THEN parser_error(st1)
             ELSE SetItem(SetItem(st1, "gtdTime", Some(strftime(a["gtd_time"][1]))),
                          "timeInForce", a["time_in_force"])

parse_time_in_force(a, st) ==
    IF ~HasAttr(a, "time_in_force") THEN Raise(st, "AttributeError")
    ELSE IF a["time_in_force"] = None THEN st
    ELSE LET st1 == SetItem(st, "timeInForce", a["time_in_force"])
         IN  IF a["time_in_force"][1] # "GTD" THEN st1
             ELSE IF ~HasAttr(a, "gtd_time") THEN Raise(st1, "AttributeError")
             ELSE IF a["gtd_time"] = None THEN parser_error(st1)
             ELSE SetItem(st1, "gtdTime", Some(strftime(a["gtd_time"][1])))

\* parse_price_bound without its None guard
parse_price_bound_NoGuard(a, st) ==
    IF ~HasAttr(a, "price_bound") THEN Raise(st, "AttributeError")
    ELSE SetItem(st, "priceBound", a["price_bound"])

parse_price_bound(a, st) == PassThrough(a, st, "price_bound", "priceBound")

parse_position_fill(a, st) == PassThrough(a, st, "position_fill", "positionFill")

\* kwargs of the two client extension extractors: one entry per option
\* that is not None
ExtensionKwargs(a, idDest, tagDest, commentDest) ==
    LET k0 == <<>>
        k1 == IF a[idDest] # None THEN ("id" :> a[idDest]) @@ k0 ELSE k0
        k2 == IF a[tagDest] # None THEN ("tag" :> a[tagDest]) @@ k1 ELSE k1
        k3 == IF a[commentDest] # None THEN ("comment" :> a[commentDest]) @@ k2 ELSE k2
    IN  k3

parse_client_order_extensions(a, st) ==
    IF \E d \in {"client_order_id", "client_order_tag", "client_order_comment"} : ~HasAttr(a, d)
    THEN Raise(st, "AttributeError")
    ELSE IF /\ a["client_order_id"] = None
            /\ a["client_order_tag"] = None
            /\ a["client_order_comment"] = None
    THEN st
    ELSE SetItem(st, "clientExtensions",
                 Construct("ClientExtensions",
                           ExtensionKwargs(a, "client_order_id", "client_order_tag",
                                           "client_order_comment")))

\* parse_client_trade_extensions taking the tag from client_trade_id
parse_client_trade_extensions_TagFromId(a, st) ==
    IF \E d \in {"client_trade_id", "client_trade_tag", "client_trade_comment"} : ~HasAttr(a, d)
    THEN Raise(st, "AttributeError")
    ELSE IF /\ a["client_trade_id"] = None
            /\ a["client_trade_tag"] = None
            /\ a["client_trade_comment"] = None
    THEN st
    ELSE SetItem(st, "tradeClientExtensions",
                 Construct("ClientExtensions",
                           ExtensionKwargs(a, "client_trade_id", "client_trade_id",
                                           "client_trade_comment")))

parse_client_trade_extensions(a, st) ==
    IF \E d \in {"client_trade_id", "client_trade_tag", "client_trade_comment"} : ~HasAttr(a, d)
    THEN Raise(st, "AttributeError")
    ELSE IF /\ a["client_trade_id"] = None
            /\ a["client_trade_tag"] = None
            /\ a["client_trade_comment"] = None
    THEN st
    ELSE SetItem(st, "tradeClientExtensions",
                 Construct("ClientExtensions",
                           ExtensionKwargs(a, "client_trade_id", "client_trade_tag",
                                           "client_trade_comment")))

parse_take_profit_on_fill(a, st) ==
    IF ~HasAttr(a, "take_profit_price") THEN Raise(st, "AttributeError")
    ELSE IF a["take_profit_price"] = None THEN st
    ELSE SetItem(st, "takeProfitOnFill",
                 Construct("TakeProfitDetails", "price" :> a["take_profit_price"]))

parse_stop_loss_on_fill(a, st) ==
    IF ~HasAttr(a, "stop_loss_price") THEN Raise(st, "AttributeError")
    ELSE IF a["stop_loss_price"] = None THEN st
    ELSE SetItem(st, "stopLossOnFill",
                 Construct("StopLossDetails", "price" :> a["stop_loss_price"]))

\* the guard reads trailing_stop_loss_distance, the keyword argument reads
\* stop_loss_distance
parse_trailing_stop_loss_on_fill(a, st) ==
    IF ~HasAttr(a, "trailing_stop_loss_distance") THEN Raise(st, "AttributeError")
    ELSE IF a["trailing_stop_loss_distance"] = None THEN st
    ELSE IF ~HasAttr(a, "stop_loss_distance") THEN Raise(st, "AttributeError")
    ELSE SetItem(st, "trailingStopLossOnFill",
                 Construct("TrailingStopLossDetails", "distance" :> a["stop_loss_distance"]))

\* the lambdas appended to param_parsers, named by the module they belong to
CallParser(m, a, st) ==
    CASE m = "trade_id" -> parse_trade_id(a, st)
      [] m = "instrument" -> parse_instrument(a, st)
      [] m = "units" -> parse_units(a, st)
      [] m = "price" -> parse_price(a, st)
      [] m = "distance" -> parse_distance(a, st)
      [] m = "time_in_force" -> parse_time_in_force(a, st)
      [] m = "price_bound" -> parse_price_bound(a, st)
      [] m = "position_fill" -> parse_position_fill(a, st)
      [] m = "client_order_extensions" -> parse_client_order_extensions(a, st)
      [] m = "client_trade_extensions" -> parse_client_trade_extensions(a, st)
      [] m = "take_profit_on_fill" -> parse_take_profit_on_fill(a, st)
      [] m = "stop_loss_on_fill" -> parse_stop_loss_on_fill(a, st)
      [] m = "trailing_stop_loss_on_fill" -> parse_trailing_stop_loss_on_fill(a, st)

\* the loop of parse_arguments going on after a parser has raised
RECURSIVE RunParsers_NoStop(_, _, _)
RunParsers_NoStop(parsers, a, st) ==
    IF parsers = <<>> THEN st
    ELSE RunParsers_NoStop(Tail(parsers), a,
                           CallParser(Head(parsers), a,
                                      [st EXCEPT !.ran = Append(@, Head(parsers))]))

\* the loop of parse_arguments: each parser in list order, until one raises
RECURSIVE RunParsers(_, _, _)
RunParsers(parsers, a, st) ==
    IF parsers = <<>> \/ st.err # "none" THEN st
    ELSE RunParsers(Tail(parsers), a,
                    CallParser(Head(parsers), a, [st EXCEPT !.ran = Append(@, Head(parsers))]))

\* one parse_arguments call on a builder whose order_request is req
Call(parsers, a, req) ==
    RunParsers(parsers, a, [req |-> req, err |-> "none", log |-> <<>>, ran |-> <<>>])

(* ------------------------------- state --------------------------------- *)

\* __init__: the parser handed in has none of the order options yet; it
\* was built with argparse's conflict_handler "error" (the default) or
\* "resolve"
Init ==
    /\ parser \in { [dests |-> {}, choices |-> {}, conflict_handler |-> h] :
                      h \in {"error", "resolve"} }
    /\ param_parsers = <<>>
    /\ order_request = <<>>
    /\ args = <<>>
    /\ phase = "accepting"
    /\ error = "none"
    /\ ran = <<>>
    /\ log = <<>>
    /\ builds = 0

\* parser.add_argument raises ArgumentError for an option string that is
\* already registered, unless conflicts are resolved by replacement
Conflict(p, d) == p.conflict_handler = "error" /\ d \in p.dests

\* an add_ method: its add_argument calls (the first conflict raises and
\* leaves the builder as it was), then the append to param_parsers
Register(m, dests) ==
    /\ phase = "accepting"
    /\ Len(param_parsers) < MaxParsers
    /\ \A d \in dests : ~Conflict(parser, d)
    /\ parser' = [parser EXCEPT !.dests = @ \cup dests]
    /\ param_parsers' = Append(param_parsers, m)
    /\ UNCHANGED <<order_request, args, phase, error, ran, log, builds>>

add_trade_id == Register("trade_id", {"trade_id"})

add_instrument == Register("instrument", {"instrument"})

add_units == Register("units", {"units"})

add_price == Register("price", {"price"})

add_distance == Register("distance", {"distance"})

add_time_in_force ==
    \E choices \in ChoiceSets :
        /\ phase = "accepting"
        /\ Len(param_parsers) < MaxParsers
        /\ ~Conflict(parser, "time_in_force")
        /\ "GTD" \in choices => ~Conflict(parser, "gtd_time")
        /\ parser' = [parser EXCEPT
                        !.dests = @ \cup {"time_in_force"}
                                    \cup (IF "GTD" \in choices THEN {"gtd_time"} ELSE {}),
                        !.choices = choices]
        /\ param_parsers' = Append(param_parsers, "time_in_force")
        /\ UNCHANGED <<order_request, args, phase, error, ran, log, builds>>

add_price_bound == Register("price_bound", {"price_bound"})

add_position_fill == Register("position_fill", {"position_fill"})

add_client_order_extensions ==
    Register("client_order_extensions",
             {"client_order_id", "client_order_tag", "client_order_comment"})

add_client_trade_extensions ==
    Register("client_trade_extensions",
             {"client_trade_id", "client_trade_tag", "client_trade_comment"})

add_take_profit_on_fill == Register("take_profit_on_fill", {"take_profit_price"})

add_stop_loss_on_fill == Register("stop_loss_on_fill", {"stop_loss_price"})

add_trailing_stop_loss_on_fill ==
    Register("trailing_stop_loss_on_fill", {"trailing_stop_loss_distance"})

\* parse_arguments starting every call from an empty order_request
parse_arguments_Reset(a) ==
    LET st == Call(param_parsers, a, <<>>)
    IN  /\ args' = a
        /\ order_request' = st.req
        /\ error' = st.err
        /\ ran' = st.ran
        /\ log' = st.log
        /\ phase' = IF st.err = "none" THEN "built" ELSE "failed"
        /\ builds' = builds + 1
        /\ UNCHANGED <<parser, param_parsers>>

\* parse_arguments(args): the whole loop, on the order_request the builder holds
parse_arguments(a) ==
    LET st == Call(param_parsers, a, order_request)
    IN  /\ args' = a
        /\ order_request' = st.req
        /\ error' = st.err
        /\ ran' = st.ran
        /\ log' = st.log
        /\ phase' = IF st.err = "none" THEN "built" ELSE "failed"
        /\ builds' = builds + 1
        /\ UNCHANGED <<parser, param_parsers>>

\* the one build of a builder
Build ==
    /\ phase = "accepting"
    /\ \E a \in ArgsSpace(parser) : parse_arguments(a)

\* a later parse_arguments call on the same builder
Rebuild ==
    /\ phase # "accepting"
    /\ builds < MaxBuilds
    /\ Len(param_parsers) <= MaxRebuildParsers
    /\ \E a \in ArgsSpace(parser) : parse_arguments(a)

Next ==
    \/ add_trade_id
    \/ add_instrument
    \/ add_units
    \/ add_price
    \/ add_distance
    \/ add_time_in_force
    \/ add_price_bound
    \/ add_position_fill
    \/ add_client_order_extensions
    \/ add_client_trade_extensions
    \/ add_take_profit_on_fill
    \/ add_stop_loss_on_fill
    \/ add_trailing_stop_loss_on_fill
    \/ Build

\* a builder is built once
Spec == Init /\ [][Next]_vars

NextRebuild == Next \/ Rebuild

\* a builder on which parse_arguments is called again
SpecRebuild == Init /\ [][NextRebuild]_vars

(* ------------------------- vocabulary of the claims -------------------- *)

Range(s) == { s[i] : i \in 1..Len(s) }

Count(s, x) == Cardinality({ i \in 1..Len(s) : s[i] = x })

\* a module is activated when its extractor is in param_parsers
Activated(m) == m \in Range(param_parsers)

\* the raw input d was supplied
Supplied(d) == d \in DOMAIN args /\ args[d] # None

\* a parse_arguments call has taken place
Called == phase # "accepting"

\* the raw inputs of each module
ModuleDests ==
    [ trade_id |-> {"trade_id"}, instrument |-> {"instrument"}, units |-> {"units"},
      price |-> {"price"}, distance |-> {"distance"},
      time_in_force |-> {"time_in_force", "gtd_time"},
      price_bound |-> {"price_bound"}, position_fill |-> {"position_fill"},
      client_order_extensions |-> {"client_order_id", "client_order_tag", "client_order_comment"},
      client_trade_extensions |-> {"client_trade_id", "client_trade_tag", "client_trade_comment"},
      take_profit_on_fill |-> {"take_profit_price"},
      stop_loss_on_fill |-> {"stop_loss_price"},
      trailing_stop_loss_on_fill |-> {"trailing_stop_loss_distance"} ]

\* the Request keys of each module
ModuleKeys ==
    [ trade_id |-> {"tradeID"}, instrument |-> {"instrument"}, units |-> {"units"},
      price |-> {"price"}, distance |-> {"distance"},
      time_in_force |-> {"timeInForce", "gtdTime"},
      price_bound |-> {"priceBound"}, position_fill |-> {"positionFill"},
      client_order_extensions |-> {"clientExtensions"},
      client_trade_extensions |-> {"tradeClientExtensions"},
      take_profit_on_fill |-> {"takeProfitOnFill"},
      stop_loss_on_fill |-> {"stopLossOnFill"},
      trailing_stop_loss_on_fill |-> {"trailingStopLossOnFill"} ]

\* the raw inputs a Request key corresponds to
KeyInputs ==
    [ tradeID |-> {"trade_id"}, instrument |-> {"instrument"}, units |-> {"units"},
      price |-> {"price"}, distance |-> {"distance"},
      timeInForce |-> {"time_in_force"}, gtdTime |-> {"gtd_time"},
      priceBound |-> {"price_bound"}, positionFill |-> {"position_fill"},
      clientExtensions |-> {"client_order_id", "client_order_tag", "client_order_comment"},
      tradeClientExtensions |-> {"client_trade_id", "client_trade_tag", "client_trade_comment"},
      takeProfitOnFill |-> {"take_profit_price"},
      stopLossOnFill |-> {"stop_loss_price"},
      trailingStopLossOnFill |-> {"trailing_stop_loss_distance"} ]

\* the keys of the nested objects
ObjectKeys ==
    {"clientExtensions", "tradeClientExtensions", "takeProfitOnFill", "stopLossOnFill",
     "trailingStopLossOnFill"}

\* the number a decimal digit character stands for
Num(c) ==
    CASE c = "0" -> 0 [] c = "1" -> 1 [] c = "2" -> 2 [] c = "3" -> 3 [] c = "4" -> 4
      [] c = "5" -> 5 [] c = "6" -> 6 [] c = "7" -> 7 [] c = "8" -> 8 [] c = "9" -> 9
      [] OTHER -> -1000000

Num2(s, i) == 10 * Num(s[i]) + Num(s[i + 1])

\* s reads YYYY-MM-DDTHH:MM:SS.000000000Z and its fields are those of dt
IsGtdFormat(s, dt) ==
    /\ Len(s) = 30
    /\ s[5] = "-" /\ s[8] = "-" /\ s[11] = "T" /\ s[14] = ":" /\ s[17] = ":"
    /\ s[20] = "." /\ s[30] = "Z"
    /\ \A i \in 21..29 : s[i] = "0"
    /\ 100 * Num2(s, 1) + Num2(s, 3) = dt.year
    /\ Num2(s, 6) = dt.month
    /\ Num2(s, 9) = dt.day
    /\ Num2(s, 12) = dt.hour
    /\ Num2(s, 15) = dt.minute
    /\ Num2(s, 18) = dt.second

(* -------------------------------- claims ------------------------------- *)

\* C1: in every build with the time-in-force module activated and
\* time-in-force = GTD, an absent gtd-time makes the build fail with a
\* ValidationError, and a present gtd-time makes the build succeed with
\* gtdTime holding the date-time as YYYY-MM-DDTHH:MM:SS.000000000Z.
C1_GtdBuildOutcome ==
    (Called /\ Activated("time_in_force") /\ args["time_in_force"] = Some("GTD")) =>
        IF args["gtd_time"] = None
        THEN error = "ValidationError"
        ELSE /\ error = "none"
             /\ "gtdTime" \in DOMAIN order_request
             /\ order_request["gtdTime"] # None
             /\ IsGtdFormat(order_request["gtdTime"][1], args["gtd_time"][1])

\* C5: with the trailing-stop-loss-on-fill module activated and its
\* distance supplied, a build that meets no validation failure completes
\* and holds under trailingStopLossOnFill an attachment whose distance is
\* the supplied one; take-profit and stop-loss are attached from their own
\* price only, once their extractor has run.
C5_RiskAttachments ==
    Called =>
        /\ (/\ Activated("trailing_stop_loss_on_fill")
            /\ Supplied("trailing_stop_loss_distance")
            /\ error # "ValidationError") =>
               /\ error = "none"
               /\ "trailingStopLossOnFill" \in DOMAIN order_request
               /\ order_request["trailingStopLossOnFill"] # None
               /\ order_request["trailingStopLossOnFill"][1].fields
                    = ("distance" :> args["trailing_stop_loss_distance"])
        /\ "take_profit_on_fill" \in Range(ran) =>
               IF Supplied("take_profit_price")
               THEN /\ "takeProfitOnFill" \in DOMAIN order_request
                    /\ order_request["takeProfitOnFill"][1].fields
                         = ("price" :> args["take_profit_price"])
               ELSE "takeProfitOnFill" \notin DOMAIN order_request
        /\ "stop_loss_on_fill" \in Range(ran) =>
               IF Supplied("stop_loss_price")
               THEN /\ "stopLossOnFill" \in DOMAIN order_request
                    /\ order_request["stopLossOnFill"][1].fields
                         = ("price" :> args["stop_loss_price"])
               ELSE "stopLossOnFill" \notin DOMAIN order_request

\* C10: a build raises nothing but the ValidationError of time-in-force =
\* GTD without gtd-time; with any other raw input it completes.
C10_OnlyGtdValidationError ==
    (Called /\ error # "none") =>
        /\ error = "ValidationError"
        /\ Activated("time_in_force")
        /\ args["time_in_force"] = Some("GTD")
        /\ args["gtd_time"] = None

\* C2 as stated: when a module signals a validation failure, no extractor
\* registered after it runs and nothing of the Request is left: the fields
\* written so far, timeInForce included, are discarded.
C2_FailureDiscardsRequest ==
    error = "ValidationError" =>
        /\ ran[Len(ran)] = "time_in_force"
        /\ DOMAIN order_request = {}

\* C2 as amended: when the time-in-force module signals the validation
\* failure, the extractors that ran are those registered up to and
\* including the first time-in-force extractor and none after it, and
\* order_request is not cleared: it keeps every field written before the
\* failure, with timeInForce = GTD and without gtdTime.
C2_FailureStopsBuild ==
    error = "ValidationError" =>
        /\ Len(ran) >= 1 /\ Len(ran) <= Len(param_parsers)
        /\ ran = SubSeq(param_parsers, 1, Len(ran))
        /\ ran[Len(ran)] = "time_in_force"
        /\ \A i \in 1..(Len(ran) - 1) : ran[i] # "time_in_force"
        /\ phase = "failed"
        /\ DOMAIN order_request = Range(log)
        /\ \A i \in 1..(Len(ran) - 1) : \A k \in ModuleKeys[ran[i]] :
               k \in DOMAIN order_request <=> \E d \in KeyInputs[k] : Supplied(d)
        /\ "timeInForce" \in DOMAIN order_request
        /\ order_request["timeInForce"] = Some("GTD")
        /\ "gtdTime" \notin DOMAIN order_request

\* a failed build in which a later extractor, whose input was supplied, did
\* not run, and timeInForce stayed in order_request
C2_Witness ==
    /\ error = "ValidationError"
    /\ Len(ran) < Len(param_parsers)
    /\ LET m == param_parsers[Len(param_parsers)]
       IN  /\ m # "time_in_force"
           /\ \E d \in ModuleDests[m] : Supplied(d)
           /\ ModuleKeys[m] \cap DOMAIN order_request = {}
    /\ "timeInForce" \in DOMAIN order_request

\* C3 as stated: after a completed build every key of an activated module,
\* gtdTime included, is in the Request exactly when its raw input was
\* supplied.
C3_KeyIffSupplied ==
    phase = "built" =>
        \A m \in Range(param_parsers) : \A k \in ModuleKeys[m] :
            k \in DOMAIN order_request <=> \E d \in KeyInputs[k] : Supplied(d)

\* C3 as amended: after a completed build every key of an activated module
\* other than gtdTime is in the Request exactly when (one of) its raw
\* input(s) was supplied; gtdTime is in the Request exactly when gtd-time
\* was supplied and time-in-force is GTD.
C3_KeyIffSuppliedAndUsed ==
    phase = "built" =>
        \A m \in Range(param_parsers) : \A k \in ModuleKeys[m] :
            k \in DOMAIN order_request <=>
                IF k = "gtdTime"
                THEN Supplied("gtd_time") /\ args["time_in_force"] = Some("GTD")
                ELSE \E d \in KeyInputs[k] : Supplied(d)

\* a completed build with gtd-time supplied, a time-in-force other than GTD
\* written, and no gtdTime
C3_Witness ==
    /\ phase = "built"
    /\ Activated("time_in_force")
    /\ Supplied("gtd_time")
    /\ Supplied("time_in_force")
    /\ args["time_in_force"] # Some("GTD")
    /\ "timeInForce" \in DOMAIN order_request
    /\ "gtdTime" \notin DOMAIN order_request

\* C4: after a build, a module whose raw inputs are all absent has none of
\* its keys in the Request, no key holds None, and no nested object is
\* empty or has a None field.
C4_AbsentInputOmitsKeys ==
    Called =>
        /\ \A m \in Range(param_parsers) :
               (\A d \in ModuleDests[m] : ~Supplied(d)) =>
                   ModuleKeys[m] \cap DOMAIN order_request = {}
        /\ \A k \in DOMAIN order_request : order_request[k] # None
        /\ \A k \in ObjectKeys \cap DOMAIN order_request :
               /\ DOMAIN order_request[k][1].fields # {}
               /\ \A f \in DOMAIN order_request[k][1].fields :
                      order_request[k][1].fields[f] # None

\* a completed build with two modules, one with all inputs absent and no
\* key, the other with a key written
C4_Witness ==
    /\ phase = "built"
    /\ \E m \in Range(param_parsers) :
           /\ \A d \in ModuleDests[m] : ~Supplied(d)
           /\ ModuleKeys[m] \cap DOMAIN order_request = {}
    /\ DOMAIN order_request # {}

\* the Client Extensions object under key k is there exactly when one of
\* id, tag, comment was supplied, and sets exactly the supplied ones
ExtensionsExact(k, idDest, tagDest, commentDest) ==
    LET dest == [id |-> idDest, tag |-> tagDest, comment |-> commentDest]
        present == { f \in {"id", "tag", "comment"} : Supplied(dest[f]) }
    IN  IF present = {}
        THEN k \notin DOMAIN order_request
        ELSE /\ k \in DOMAIN order_request
             /\ order_request[k] # None
             /\ order_request[k][1].type = "ClientExtensions"
             /\ DOMAIN order_request[k][1].fields = present
             /\ \A f \in present : order_request[k][1].fields[f] = args[dest[f]]

\* C6: once the client-order-extensions (client-trade-extensions) extractor
\* has run, a Client Extensions object is under clientExtensions
\* (tradeClientExtensions) exactly when one of id, tag, comment was
\* supplied, and it sets exactly the supplied fields, each to its value.
C6_ClientExtensionsExact ==
    /\ "client_order_extensions" \in Range(ran) =>
           ExtensionsExact("clientExtensions", "client_order_id", "client_order_tag",
                           "client_order_comment")
    /\ "client_trade_extensions" \in Range(ran) =>
           ExtensionsExact("tradeClientExtensions", "client_trade_id", "client_trade_tag",
                           "client_trade_comment")

\* client-order-id = "abc" alone: an object with only id = "abc"
C6_Witness ==
    /\ "client_order_extensions" \in Range(ran)
    /\ args["client_order_id"] = Some("abc")
    /\ args["client_order_tag"] = None
    /\ args["client_order_comment"] = None
    /\ "clientExtensions" \in DOMAIN order_request
    /\ order_request["clientExtensions"][1].fields = ("id" :> Some("abc"))

\* the orders in which the activated extractors can be listed
Orders(parsers) ==
    { [i \in 1..Len(parsers) |-> parsers[p[i]]] :
        p \in { q \in [1..Len(parsers) -> 1..Len(parsers)] :
                  \A i, j \in 1..Len(parsers) : q[i] = q[j] => i = j } }

\* what a build yields: the Request when it completes, the failure when
\* it does not
Outcome(err, req) == [failure |-> err, request |-> IF err = "none" THEN req ELSE <<>>]

\* C7: a fresh builder with the same modules activated in any other order,
\* building from the same raw input, yields the same Request or the same
\* failure.
C7_OrderIndependence ==
    Called =>
        \A other \in Orders(param_parsers) :
            LET st == Call(other, args, <<>>)
            IN  Outcome(st.err, st.req) = Outcome(error, order_request)

\* C8 as stated: the Request reflects only the latest build: every key it
\* holds was written by the latest parse_arguments call.
C8_RequestFreshPerBuild ==
    Called => DOMAIN order_request \subseteq Range(log)

\* C8 as amended: order_request is created empty with the builder and is
\* never cleared: a parse_arguments call keeps every key left by earlier
\* calls on the same builder (failed ones included), with its value unless
\* the call writes the key again, and adds only the keys it writes; so the
\* Request reflects one build alone only on a fresh builder.
C8_RequestAccumulates ==
    [][ /\ builds = 0 => DOMAIN order_request = {}
        /\ builds' = builds + 1 =>
              /\ DOMAIN order_request' = DOMAIN order_request \cup Range(log')
              /\ \A k \in DOMAIN order_request \ Range(log') :
                     order_request'[k] = order_request[k] ]_vars

\* after a second call, a key whose input the second call did not get is
\* in the Request: only the first call wrote it
C8_Witness ==
    /\ builds = 2
    /\ \E k \in DOMAIN order_request :
           /\ k \notin Range(log)
           /\ \A d \in KeyInputs[k] : ~Supplied(d)

\* the module that owns a Request key
Owner(k) == CHOOSE m \in DOMAIN ModuleKeys : k \in ModuleKeys[m]

\* C9 as stated: during one build each key of the Request is written at
\* most once, whatever add_ calls preceded it.
C9_KeyWrittenOnce ==
    Called => \A k \in Range(log) : Count(log, k) <= 1

\* C9 as amended: during one build each key is written at most once per
\* activation of the module that owns it, so at most once when no module
\* was activated twice; a module activated twice (which a parser that
\* resolves option conflicts allows) writes its keys twice.
C9_KeyWrittenOncePerActivation ==
    Called => \A k \in Range(log) : Count(log, k) <= Count(param_parsers, Owner(k))

\* a build in which a module activated twice wrote its key twice
C9_Witness ==
    /\ Called
    /\ \E k \in Range(log) : Count(log, k) = 2 /\ Count(param_parsers, Owner(k)) = 2

====
